---- MODULE Spec2Model ----
(***************************************************************************)
(* Model of src/src/log_analyzer.py: the download / classify / merge /     *)
(* save pipeline of the remote log analysis script.                        *)
(*                                                                         *)
(* Python strings are sequences of one-character strings, so that          *)
(* substring tests, split('-'), splitext, rstrip('/'), basename and        *)
(* max() are computed the way the code computes them.                      *)
(***************************************************************************)
EXTENDS Integers, Sequences, FiniteSets, TLC

VARIABLES
    \* --- SpecClassify: analyze_downloaded_logs on its own ---
    cdir,           \* the local directory handed to analyze_downloaded_logs
    cresult,        \* its return value, NotRun before the call
    cenv,           \* what the file system did during the call
    \* --- SpecMerge: update_tracker_with_results on its own ---
    morig,          \* the table before any merge
    mdf,            \* the table after the merges done so far
    mlast,          \* arguments of the latest merge
    mprev,          \* the table before the latest merge
    mdates,         \* date strings of the merges done so far, in order
    \* --- SpecDir: create_log_download_directory on its own ---
    dfs,            \* the local file system: what is at each per-date directory path
    dlog,           \* the calls made so far, in order, with what each returned
    \* --- the pipeline (main) ---
    pc,                         \* the step main is about to run, "exited" after sys.exit
    exit_code,                  \* main's exit_code
    raised,                     \* class of the exception main caught, "" if none
    environ,                    \* names of the variables os.getenv finds set
    tracker_file,               \* the tracker workbook on disk
    analysis_df,                \* the table loaded in step 1
    local_dir,                  \* the per-date download directory
    ssh_open,                   \* the SSHClient is open
    sftp_open,                  \* the SFTP sub-session is open
    row,                        \* next row of df.iterrows(), 0 before the loop
    problematic_remote_paths,   \* download_latest_logs' list
    downloaded_log_filenames,   \* download_latest_logs' set
    download_returned,          \* download_latest_logs returned normally
    analysis_results,           \* analyze_downloaded_logs' dict
    analyze_env,                \* what the file system did during step 4
    updated_df,                 \* the table after step 5
    row_log,                    \* what happened to each row of the loop, in order
    listings,                   \* remote paths passed to listdir, in order
    copies,                     \* calls of sftp_client.get, in order
    save_calls,                 \* calls of save_analysis_results
    missing_vars,               \* load_environment_variables' missing_vars
    tracker_file0,              \* the tracker workbook as it was when main started
    calls                       \* calls of os.makedirs, connect and open_sftp so far

cvars == <<cdir, cresult, cenv>>
mvars == <<morig, mdf, mprev, mlast, mdates>>
dvars == <<dfs, dlog>>
pvars == <<pc, exit_code, raised, environ, tracker_file, analysis_df, local_dir, ssh_open,
           sftp_open, row, problematic_remote_paths, downloaded_log_filenames,
           download_returned, analysis_results, analyze_env, updated_df, row_log,
           listings, copies, save_calls, missing_vars, tracker_file0, calls>>

(***************************************************************************)
(* Words used to spell the strings of the program.                         *)
(***************************************************************************)
W_Execution == <<"E","x","e","c","u","t","i","o","n">>
W_Return == <<"R","e","t","u","r","n">>
W_Code == <<"C","o","d","e",":">>
W_Stars == <<"*","*","*">>
W_Failure == <<"F","a","i","l","u","r","e">>
W_Error == <<"E","r","r","o","r">>
SP == <<" ">>

SUCCESS_KEYWORD == W_Execution \o SP \o W_Return \o SP \o W_Code \o SP \o <<"0">>
FAILURE_KEYWORD == W_Stars \o SP \o W_Failure
ERROR_KEYWORD == W_Stars \o SP \o W_Error \o <<":">>

(***************************************************************************)
(* Python's `kw in line` on strings.                                       *)
(***************************************************************************)
StrContains(line, kw) ==
    \E i \in 1..(Len(line) - Len(kw) + 1) : SubSeq(line, i, i + Len(kw) - 1) = kw

(***************************************************************************)
(* The body of `for line in reversed(content)`: the status of one line,    *)
(* "" when the line has no keyword and the loop goes on.                   *)
(***************************************************************************)
LineStatusFailureFirst(line) ==
    IF StrContains(line, FAILURE_KEYWORD) THEN "failure"
    ELSE IF StrContains(line, SUCCESS_KEYWORD) THEN "success"
    ELSE IF StrContains(line, ERROR_KEYWORD) THEN "error"
    ELSE ""

LineStatus(line) ==
    IF StrContains(line, SUCCESS_KEYWORD) THEN "success"
    ELSE IF StrContains(line, FAILURE_KEYWORD) THEN "failure"
    ELSE IF StrContains(line, ERROR_KEYWORD) THEN "error"
    ELSE ""

RECURSIVE ScanReversed(_, _)
ScanReversed(lines, k) ==
    IF k = 0 THEN "unknown"
    ELSE IF LineStatus(lines[k]) # "" THEN LineStatus(lines[k])
    ELSE ScanReversed(lines, k - 1)

RECURSIVE ScanForward(_, _)
ScanForward(lines, k) ==
    IF k > Len(lines) THEN "unknown"
    ELSE IF LineStatus(lines[k]) # "" THEN LineStatus(lines[k])
    ELSE ScanForward(lines, k + 1)

ClassifyContentForward(lines) == ScanForward(lines, 1)

ClassifyContent(lines) == ScanReversed(lines, Len(lines))


(***************************************************************************)
(* Python values: a str, or None / NaN (pandas missing value).             *)
(***************************************************************************)
PyStr(s) == [na |-> FALSE, s |-> s]
None == [na |-> TRUE, s |-> <<>>]

\* Python truthiness of `remote_path` (None and '' are falsy).
Truthy(v) == ~v.na /\ Len(v.s) > 0

(***************************************************************************)
(* Code-point order of the characters that occur in file names, for        *)
(* Python's string comparison in max(remote_files).                        *)
(***************************************************************************)
AsciiOrder == <<"-", ".", "/", "0", "1", "2", "_", "a", "b", "c", "e", "g", "l", "m", "o", "r">>

Ord(c) == CHOOSE i \in 1..Len(AsciiOrder) : AsciiOrder[i] = c

RECURSIVE StrLess(_, _)
StrLess(a, b) ==
    IF Len(b) = 0 THEN FALSE
    ELSE IF Len(a) = 0 THEN TRUE
    ELSE IF Ord(Head(a)) < Ord(Head(b)) THEN TRUE
    ELSE IF Ord(Head(a)) > Ord(Head(b)) THEN FALSE
    ELSE StrLess(Tail(a), Tail(b))

StrMin(files) == CHOOSE f \in files : \A g \in files : g = f \/ StrLess(f, g)

\* max(remote_files)
StrMax(files) == CHOOSE f \in files : \A g \in files : g = f \/ StrLess(g, f)

(***************************************************************************)
(* String helpers of update_tracker_with_results.                          *)
(***************************************************************************)
HasChar(s, c) == \E i \in 1..Len(s) : s[i] = c

FirstIndex(s, c) == CHOOSE i \in 1..Len(s) : s[i] = c /\ \A j \in 1..(i - 1) : s[j] # c

LastIndex(s, c) == CHOOSE i \in 1..Len(s) : s[i] = c /\ \A j \in (i + 1)..Len(s) : s[j] # c

\* log_filename.split('-')[0]
SplitHyphenFirst(s) == IF HasChar(s, "-") THEN SubSeq(s, 1, FirstIndex(s, "-") - 1) ELSE s

SplitHyphenLast(s) == IF HasChar(s, "-") THEN SubSeq(s, 1, LastIndex(s, "-") - 1) ELSE s

\* os.path.splitext(p)[0]: the last dot starts the extension unless only
\* dots (or nothing) precede it after the last separator.
SplitextRoot(p) ==
    LET sepIndex == IF HasChar(p, "/") THEN LastIndex(p, "/") ELSE 0
        dotIndex == IF HasChar(p, ".") THEN LastIndex(p, ".") ELSE 0
    IN  IF dotIndex > sepIndex /\ \E k \in (sepIndex + 1)..(dotIndex - 1) : p[k] # "."
        THEN SubSeq(p, 1, dotIndex - 1)
        ELSE p

\* as if the name were never split at a hyphen
BaseJobNameNoSplit(fname) == SplitextRoot(fname)

BaseJobNameLastHyphen(fname) ==
    IF HasChar(fname, "-") THEN SplitHyphenLast(fname) ELSE SplitextRoot(fname)

\* line 335
BaseJobName(fname) ==
    IF HasChar(fname, "-") THEN SplitHyphenFirst(fname) ELSE SplitextRoot(fname)

\* remote_path.rstrip('/')
RECURSIVE RStripSlash(_)
RStripSlash(s) ==
    IF Len(s) > 0 /\ s[Len(s)] = "/" THEN RStripSlash(SubSeq(s, 1, Len(s) - 1)) ELSE s

\* os.path.basename
Basename(p) == IF HasChar(p, "/") THEN SubSeq(p, LastIndex(p, "/") + 1, Len(p)) ELSE p

\* line 344
PathIdentifier(s) == Basename(RStripSlash(s))

(***************************************************************************)
(* The tracker table: `cols` is the column order, `rows` the rows in       *)
(* order, each a function from column name to cell.  Column names are      *)
(* tuples of strings so that the results column is prefix + date.          *)
(***************************************************************************)
LOG_PATH_COLUMN == <<"remote_log_directory">>
RESULTS_COLUMN_PREFIX == "analysis_results_"
JOB_NAME_COLUMN == <<"job_name">>

ResultsCol(date_string) == <<RESULTS_COLUMN_PREFIX, date_string>>

SeqHas(seq, x) == \E k \in 1..Len(seq) : seq[k] = x

IndexOf(seq, x) == CHOOSE k \in 1..Len(seq) : seq[k] = x /\ \A j \in 1..(k - 1) : seq[j] # x

\* df.insert(pos, col, value) with pos counted from 0
InsertCol(df, pos, col, value) ==
    [cols |-> SubSeq(df.cols, 1, pos) \o <<col>> \o SubSeq(df.cols, pos + 1, Len(df.cols)),
     rows |-> [k \in 1..Len(df.rows) |->
                  [c \in (DOMAIN df.rows[k]) \cup {col} |->
                      IF c = col THEN value ELSE df.rows[k][c]]]]

\* df[col] = value
SetCol(df, col, value) ==
    [cols |-> df.cols,
     rows |-> [k \in 1..Len(df.rows) |-> [df.rows[k] EXCEPT ![col] = value]]]

\* lines 183, 342, 359
RemotePath(trow) == IF ~trow[LOG_PATH_COLUMN].na THEN PyStr(trow[LOG_PATH_COLUMN].s) ELSE None

\* lines 319-328
\* as if a new column were always appended at the end
PrepareResultsColAppend(df, results_col) ==
    IF ~SeqHas(df.cols, results_col)
    THEN InsertCol(df, Len(df.cols), results_col, "not_analyzed")
    ELSE SetCol(df, results_col, "not_analyzed")

PrepareResultsColNoReset(df, results_col) ==
    IF ~SeqHas(df.cols, results_col)
    THEN InsertCol(df, IF SeqHas(df.cols, LOG_PATH_COLUMN)
                       THEN IndexOf(df.cols, LOG_PATH_COLUMN)
                       ELSE Len(df.cols),
                   results_col, "not_analyzed")
    ELSE df

PrepareResultsCol(df, results_col) ==
    IF ~SeqHas(df.cols, results_col)
    THEN InsertCol(df, IF SeqHas(df.cols, LOG_PATH_COLUMN)
                       THEN IndexOf(df.cols, LOG_PATH_COLUMN)
                       ELSE Len(df.cols),
                   results_col, "not_analyzed")
    ELSE SetCol(df, results_col, "not_analyzed")

\* as if the inner loop stopped at the first matching row
MatchedIndicesFirstOnly(df, base_job_name) ==
    LET all == {k \in 1..Len(df.rows) :
                   /\ Truthy(RemotePath(df.rows[k]))
                   /\ PathIdentifier(RemotePath(df.rows[k]).s) = base_job_name}
    IN  {k \in all : \A j \in all : k <= j}

\* lines 340-346
MatchedIndices(df, base_job_name) ==
    {k \in 1..Len(df.rows) :
        /\ Truthy(RemotePath(df.rows[k]))
        /\ PathIdentifier(RemotePath(df.rows[k]).s) = base_job_name}

INTERNAL_ERROR_MARKERS == {"directory_not_found", "directory_list_error"}

\* lines 331-354: the loop over results.items(), entry k onwards;
\* st is [df, analyzed_rows].
RECURSIVE MatchLoop(_, _, _, _)
MatchLoop(st, results, k, results_col) ==
    IF k > Len(results) THEN st
    ELSE IF results[k].status \in INTERNAL_ERROR_MARKERS
         THEN MatchLoop(st, results, k + 1, results_col)
    ELSE LET matched == MatchedIndices(st.df, BaseJobName(results[k].name))
             df2 == [cols |-> st.df.cols,
                     rows |-> [r \in 1..Len(st.df.rows) |->
                                  IF r \in matched
                                  THEN [st.df.rows[r] EXCEPT ![results_col] = results[k].status]
                                  ELSE st.df.rows[r]]]
         IN  MatchLoop([df |-> df2, analyzed_rows |-> st.analyzed_rows \cup matched],
                       results, k + 1, results_col)

FallbackNoProblemCheck(trow, idx, results_col, analyzed_rows, problem_paths) ==
    LET current_status == trow[results_col]
        remote_path == RemotePath(trow)
    IN  IF idx \notin analyzed_rows /\ current_status = "not_analyzed"
        THEN IF ~Truthy(remote_path) THEN "missing_path" ELSE "log_not_found_or_analyzed"
        ELSE current_status

FallbackProblemFirst(trow, idx, results_col, analyzed_rows, problem_paths) ==
    LET current_status == trow[results_col]
        remote_path == RemotePath(trow)
    IN  IF SeqHas(problem_paths, remote_path)
        THEN "access_error"
        ELSE IF idx \notin analyzed_rows /\ current_status = "not_analyzed"
             THEN IF ~Truthy(remote_path) THEN "missing_path" ELSE "log_not_found_or_analyzed"
        ELSE current_status

\* lines 357-371: the final value of one trow's results cell
Fallback(trow, idx, results_col, analyzed_rows, problem_paths) ==
    LET current_status == trow[results_col]
        remote_path == RemotePath(trow)
    IN  IF SeqHas(problem_paths, remote_path)
        THEN IF current_status = "not_analyzed" THEN "access_error" ELSE current_status
        ELSE IF idx \notin analyzed_rows /\ current_status = "not_analyzed"
             THEN IF ~Truthy(remote_path) THEN "missing_path" ELSE "log_not_found_or_analyzed"
        ELSE current_status

\* update_tracker_with_results
UpdateTracker(df, results, date_string, problem_paths) ==
    LET results_col == ResultsCol(date_string)
        st0 == [df |-> PrepareResultsCol(df, results_col), analyzed_rows |-> {}]
        st1 == MatchLoop(st0, results, 1, results_col)
    IN  [cols |-> st1.df.cols,
         rows |-> [k \in 1..Len(st1.df.rows) |->
                      [st1.df.rows[k] EXCEPT ![results_col] =
                          Fallback(st1.df.rows[k], k, results_col,
                                   st1.analyzed_rows, problem_paths)]]]

(***************************************************************************)
(* Lines that SpecClassify draws file contents from.                        *)
(***************************************************************************)
L_plain == <<"o","k">>
L_succ == SUCCESS_KEYWORD
L_rc1 == W_Execution \o SP \o W_Return \o SP \o W_Code \o SP \o <<"1">>
L_fail == <<"x">> \o FAILURE_KEYWORD
L_err == SP \o SP \o ERROR_KEYWORD \o SP \o <<"b","a","d">>
L_errNoColon == W_Stars \o SP \o W_Error
L_succFail == SUCCESS_KEYWORD \o SP \o FAILURE_KEYWORD
L_failErr == ERROR_KEYWORD \o SP \o FAILURE_KEYWORD

LinePool == {L_plain, L_succ, L_rc1, L_fail, L_err, L_errNoColon, L_succFail, L_failErr}

MaxLines == 3

SeqsUpTo(S, n) == UNION {[1..k -> S] : k \in 0..n}


(***************************************************************************)
(* analyze_downloaded_logs.  A local directory is [exists, files] with     *)
(* files a function from file name to content (a sequence of lines).  The  *)
(* returned dict is a sequence of [name, status] in insertion order.       *)
(* os.listdir returns the names in arbitrary order (`order`) or raises     *)
(* (`list_raises`); opening or reading a file may raise (`read_exc`).      *)
(***************************************************************************)
STR_error == <<"e","r","r","o","r">>

ErrorDict(v) == <<[name |-> STR_error, status |-> v]>>

NoReadError == "none"
ReadErrors == {"FileNotFoundError", "Exception"}

\* as if the loop had no except FileNotFoundError clause
FileStatusNoNotFound(lines, exc) ==
    IF exc # NoReadError THEN "parse_error"
    ELSE ClassifyContent(lines)

\* lines 266-292: one iteration of the loop over local_log_files
FileStatus(lines, exc) ==
    IF exc = "FileNotFoundError" THEN "not_found"
    ELSE IF exc # NoReadError THEN "parse_error"
    ELSE ClassifyContent(lines)

AnalyzeDownloadedLogsNoDirCheck(dir, list_raises, order, read_exc) ==
    IF ~dir.exists \/ DOMAIN dir.files = {} THEN <<>>
    ELSE IF list_raises THEN ErrorDict("directory_list_error")
    ELSE [k \in 1..Len(order) |->
             [name |-> order[k], status |-> FileStatus(dir.files[order[k]], read_exc[order[k]])]]

\* lines 245-296
AnalyzeDownloadedLogs(dir, list_raises, order, read_exc) ==
    IF ~dir.exists THEN ErrorDict("directory_not_found")
    ELSE IF list_raises THEN ErrorDict("directory_list_error")
    ELSE IF DOMAIN dir.files = {} THEN <<>>
    ELSE [k \in 1..Len(order) |->
             [name |-> order[k], status |-> FileStatus(dir.files[order[k]], read_exc[order[k]])]]

\* `key in d`
DictHas(d, key) == \E k \in 1..Len(d) : d[k].name = key

DictGet(d, key) == d[CHOOSE k \in 1..Len(d) : d[k].name = key].status

\* All orders in which os.listdir may return the names in S.
Perms(S) == {f \in [1..Cardinality(S) -> S] : \A a, b \in DOMAIN f : f[a] = f[b] => a = b}

\* At most MaxReadFailures files of S fail to open or read.
MaxReadFailures == 1

ReadOutcomes(S) ==
    {f \in [S -> ReadErrors \cup {NoReadError}] :
        Cardinality({n \in S : f[n] # NoReadError}) <= MaxReadFailures}

(***************************************************************************)
(* File names.                                                             *)
(***************************************************************************)
DOT_LOG == <<".","l","o","g">>
F_a1 == <<"a","-","1">> \o DOT_LOG
F_a2 == <<"a","-","2">> \o DOT_LOG
F_a == <<"a">> \o DOT_LOG
F_b1 == <<"b","-","1">> \o DOT_LOG
F_ab1 == <<"a","-","b","-","1">> \o DOT_LOG
F_c == <<"c">> \o DOT_LOG
F_error == STR_error

(***************************************************************************)
(* SpecClassify: a directory holding one file with any content of at most  *)
(* MaxLines lines, alone or next to a second file, is analysed once.       *)
(***************************************************************************)
NotRun == <<[name |-> <<>>, status |-> "not_run"]>>

NoFiles == [n \in {} |-> <<>>]

OtherFiles ==
    {NoFiles, F_c :> <<L_fail>>, F_a2 :> <<L_succ, L_plain>>}

ClassifierDirs ==
    {[exists |-> TRUE, files |-> (F_a1 :> c) @@ o] : c \in SeqsUpTo(LinePool, MaxLines), o \in OtherFiles}
    \cup {[exists |-> TRUE, files |-> NoFiles], [exists |-> FALSE, files |-> NoFiles]}

NoEnv == [list_raises |-> FALSE, read_exc |-> NoFiles]

CIdle ==
    /\ cdir = [exists |-> FALSE, files |-> NoFiles]
    /\ cresult = NotRun
    /\ cenv = NoEnv

AnalyzeDir ==
    /\ cresult = NotRun
    /\ \E list_raises \in BOOLEAN, order \in Perms(DOMAIN cdir.files),
          read_exc \in ReadOutcomes(DOMAIN cdir.files) :
          /\ cresult' = AnalyzeDownloadedLogs(cdir, list_raises, order, read_exc)
          /\ cenv' = [list_raises |-> list_raises, read_exc |-> read_exc]
    /\ UNCHANGED cdir
    /\ UNCHANGED <<mvars, pvars, dvars>>

(***************************************************************************)
(* SpecMerge: update_tracker_with_results is applied twice to a table.     *)
(***************************************************************************)
P_la == <<"/","l","/","a">>
P_ma_slash == <<"/","m","/","a","/">>
P_lb == <<"/","l","/","b">>
P_lab == <<"/","l","/","a","-","b">>
P_le == <<"/","l","/","e">>

D1 == "20250505"
D2 == "20250506"

TrackerRow(path, job) == (LOG_PATH_COLUMN :> path) @@ (JOB_NAME_COLUMN :> job)

MergeTables ==
    { [cols |-> <<JOB_NAME_COLUMN, LOG_PATH_COLUMN>>,
       rows |-> <<TrackerRow(PyStr(P_la), "j1"), TrackerRow(PyStr(P_ma_slash), "j2"),
                  TrackerRow(None, "j3"), TrackerRow(None, "j4")>>],
      [cols |-> <<LOG_PATH_COLUMN, JOB_NAME_COLUMN>>,
       rows |-> <<TrackerRow(PyStr(P_lb), "j1"), TrackerRow(PyStr(<<>>), "j2"),
                  TrackerRow(PyStr(P_la), "j3")>>],
      [cols |-> <<LOG_PATH_COLUMN, ResultsCol(D1), JOB_NAME_COLUMN>>,
       rows |-> <<TrackerRow(PyStr(P_la), "j1") @@ (ResultsCol(D1) :> "failure"),
                  TrackerRow(PyStr(P_lb), "j2") @@ (ResultsCol(D1) :> "access_error")>>],
      [cols |-> <<LOG_PATH_COLUMN, JOB_NAME_COLUMN>>,
       rows |-> <<TrackerRow(PyStr(P_lab), "j1"), TrackerRow(PyStr(P_la), "j2"),
                  TrackerRow(PyStr(P_la), "j3")>>] }

MergeNames == {F_ab1, F_a, F_b1}
MergeStatuses == {"success", "failure"}
MaxResults == 2

\* dicts of at most n entries with distinct keys
DictsUpTo(names, statuses, n) ==
    {d \in SeqsUpTo([name : names, status : statuses], n) :
        \A a, b \in DOMAIN d : d[a].name = d[b].name => a = b}

MergeProblems == {<<>>, <<PyStr(P_la)>>, <<PyStr(P_lb), PyStr(P_ma_slash)>>}

NoMerge == [results |-> <<>>, date |-> "", problems |-> <<>>]

MIdle ==
    /\ morig = [cols |-> <<>>, rows |-> <<>>]
    /\ mdf = morig
    /\ mprev = morig
    /\ mlast = NoMerge
    /\ mdates = <<>>

DIdle ==
    /\ dfs = [p \in {} |-> <<>>]
    /\ dlog = <<>>

MergeResults ==
    /\ Len(mdates) < 2
    /\ \E results \in DictsUpTo(MergeNames, MergeStatuses, MaxResults),
          date \in {D1, D2}, problems \in MergeProblems :
          /\ mdf' = UpdateTracker(mdf, results, date, problems)
          /\ mprev' = mdf
          /\ mlast' = [results |-> results, date |-> date, problems |-> problems]
          /\ mdates' = Append(mdates, date)
    /\ UNCHANGED morig
    /\ UNCHANGED <<cvars, pvars, dvars>>


(***************************************************************************)
(* The pipeline: main and the functions it calls.                          *)
(***************************************************************************)

\* Exception classes with their base classes (Python built-ins, paramiko);
\* IOError is an alias of OSError.
Ancestors(exc) ==
    CASE exc = "FileNotFoundError" -> {"FileNotFoundError", "OSError", "IOError", "Exception"}
      [] exc = "PermissionError" -> {"PermissionError", "OSError", "IOError", "Exception"}
      [] exc = "TimeoutError" -> {"TimeoutError", "OSError", "IOError", "Exception"}
      [] exc = "NoValidConnectionsError" ->
            {"NoValidConnectionsError", "OSError", "IOError", "Exception"}
      [] exc \in {"OSError", "IOError"} -> {"OSError", "IOError", "Exception"}
      [] exc = "AuthenticationException" -> {"AuthenticationException", "SSHException", "Exception"}
      [] exc = "KeyboardInterrupt" -> {"KeyboardInterrupt", "BaseException"}
      [] OTHER -> {exc, "Exception"}

IsInstance(exc, cls) == cls \in Ancestors(exc)

\* lines 458-486: the except clauses of main, in order. An exception that
\* is no Exception matches none of them, exit_code keeps the 0 of line 408
\* and the finally clause exits with it.
ExitCodeFor(exc) ==
    IF IsInstance(exc, "FileNotFoundError") THEN 1
    ELSE IF IsInstance(exc, "ValueError") THEN 1
    ELSE IF IsInstance(exc, "AuthenticationException") THEN 2
    ELSE IF IsInstance(exc, "SSHException") THEN 2
    ELSE IF IsInstance(exc, "TimeoutError") THEN 2
    ELSE IF IsInstance(exc, "EOFError") THEN 2
    ELSE IF IsInstance(exc, "PermissionError") THEN 3
    ELSE IF IsInstance(exc, "RuntimeError") THEN 4
    ELSE IF IsInstance(exc, "Exception") THEN 5
    ELSE 0

\* An exception reaches main's handlers: exit_code is set and sys.exit runs.
ExitWith(exc) ==
    /\ pc' = "exited"
    /\ exit_code' = ExitCodeFor(exc)
    /\ raised' = exc

(***************************************************************************)
(* The remote server: directories, their entries and the entries' content. *)
(***************************************************************************)
RemoteFiles(dir) ==
    CASE dir = P_la -> {F_a1, F_a2}
      [] dir = <<"/","m","/","a">> -> {F_a2}
      [] dir = P_lb -> {}
      [] dir = P_le -> {F_c, F_error}
      [] dir = P_lab -> {F_ab1}
      [] OTHER -> {}

RemoteContent(dir, name) ==
    CASE dir = P_la /\ name = F_a1 -> <<L_fail>>
      [] dir = P_la /\ name = F_a2 -> <<L_plain, L_succ>>
      [] dir = <<"/","m","/","a">> -> <<L_err>>
      [] dir = P_le /\ name = F_error -> <<L_plain>>
      [] OTHER -> <<L_succ>>

(***************************************************************************)
(* Initial states of the pipeline.                                         *)
(***************************************************************************)
PipelineTables ==
    { [cols |-> <<JOB_NAME_COLUMN, LOG_PATH_COLUMN>>,
       rows |-> <<TrackerRow(PyStr(P_la), "j1"), TrackerRow(None, "j2"),
                  TrackerRow(PyStr(P_la), "j3"), TrackerRow(PyStr(P_ma_slash), "j4")>>],
      [cols |-> <<LOG_PATH_COLUMN, JOB_NAME_COLUMN>>,
       rows |-> <<TrackerRow(PyStr(P_la), "j1"), TrackerRow(PyStr(P_ma_slash), "j2"),
                  TrackerRow(PyStr(P_lb), "j3")>>],
      [cols |-> <<LOG_PATH_COLUMN, ResultsCol(D1), JOB_NAME_COLUMN>>,
       rows |-> <<TrackerRow(PyStr(P_le), "j1") @@ (ResultsCol(D1) :> "success"),
                  TrackerRow(PyStr(P_la), "j2") @@ (ResultsCol(D1) :> "access_error")>>] }

NoTable == [cols |-> <<>>, rows |-> <<>>]

TrackerFiles ==
    {[state |-> "ok", table |-> t] : t \in PipelineTables}
    \cup {[state |-> st, table |-> NoTable] : st \in {"missing", "unreadable", "no_column"}}

LocalDirs ==
    { [exists |-> FALSE, files |-> NoFiles],
      [exists |-> TRUE, files |-> NoFiles],
      [exists |-> TRUE, files |-> F_a1 :> <<L_fail>>] }

\* get_current_date_string()
Today == D1

\* line 67
required_vars == <<"SSH_HOSTNAME", "SSH_USERNAME", "SSH_PASSWORD">>

REQUIRED_VARS == {required_vars[i] : i \in DOMAIN required_vars}

NoCalls == [makedirs |-> 0, connect |-> 0, open_sftp |-> 0]

PStart ==
    /\ pc = "load_config"
    /\ exit_code = 0
    /\ raised = ""
    /\ analysis_df = NoTable
    /\ ssh_open = FALSE
    /\ sftp_open = FALSE
    /\ row = 0
    /\ problematic_remote_paths = <<>>
    /\ downloaded_log_filenames = {}
    /\ download_returned = FALSE
    /\ analysis_results = NotRun
    /\ analyze_env = NoEnv
    /\ updated_df = NoTable
    /\ row_log = <<>>
    /\ listings = <<>>
    /\ copies = <<>>
    /\ save_calls = 0
    /\ missing_vars = <<>>
    /\ calls = NoCalls

PIdle ==
    /\ PStart
    /\ environ = {}
    /\ tracker_file = [state |-> "missing", table |-> NoTable]
    /\ tracker_file0 = tracker_file
    /\ local_dir = [exists |-> FALSE, files |-> NoFiles]

Init ==
    /\ PStart
    /\ environ \in SUBSET REQUIRED_VARS
    /\ tracker_file \in TrackerFiles
    /\ tracker_file0 = tracker_file
    /\ local_dir \in LocalDirs
    /\ CIdle
    /\ MIdle
    /\ DIdle

(***************************************************************************)
(* Step 1: load_environment_variables and get_analysis_tracker.            *)
(***************************************************************************)
TrackerIsNoneIgnoresColumn(file) == file.state \in {"missing", "unreadable"}

\* get_analysis_tracker returns None
TrackerIsNone(file) == file.state \in {"missing", "unreadable", "no_column"}

\* line 70, checking one variable only
MissingVarsPasswordOnly(env) ==
    SelectSeq(required_vars, LAMBDA v : v = "SSH_PASSWORD" /\ v \notin env)

\* line 70: the variables for which os.getenv returned None
MissingVars(env) == SelectSeq(required_vars, LAMBDA v : v \notin env)

LoadConfig ==
    /\ pc = "load_config"
    /\ missing_vars' = MissingVars(environ)
    /\ IF missing_vars' # <<>> \/ TrackerIsNone(tracker_file)
       THEN /\ ExitWith("ValueError")
            /\ UNCHANGED analysis_df
       ELSE /\ analysis_df' = tracker_file.table
            /\ pc' = "prepare"
            /\ UNCHANGED <<exit_code, raised>>
    /\ UNCHANGED <<environ, tracker_file, local_dir, ssh_open, sftp_open, row,
                   problematic_remote_paths, downloaded_log_filenames, download_returned,
                   analysis_results, analyze_env, updated_df, row_log, listings, copies,
                   save_calls>>
    /\ UNCHANGED <<tracker_file0, calls>>
    /\ UNCHANGED <<cvars, mvars, dvars>>

(***************************************************************************)
(* Step 2: create_log_download_directory.                                  *)
(***************************************************************************)
MakedirsErrors == {"PermissionError", "OSError"}

\* What os.makedirs does when it is reached: "" for success, or the class
\* of the OSError it raises.
MakedirsOutcomes == {""} \cup MakedirsErrors

\* os.path.join(base, name) for a name without drive
PathJoin(base, name) ==
    IF name # <<>> /\ name[1] = "/" THEN name
    ELSE IF base = <<>> \/ base[Len(base)] = "/" THEN base \o name
    ELSE base \o <<"/">> \o name

\* line 130
LogDirPath(base_dir, date_string) == PathJoin(base_dir, <<date_string, "_logs">>)

NoPath == <<>>

\* as if os.makedirs were called without the os.path.exists test: on an
\* existing directory it raises FileExistsError, an OSError
CreateLogDownloadDirectoryNoExistsCheck(base_dir, date_string, dir, outcome) ==
    IF dir.exists
    THEN [dir |-> dir, raised |-> "OSError", path |-> NoPath, makedirs |-> 1]
    ELSE IF outcome = ""
         THEN [dir |-> [dir EXCEPT !.exists = TRUE], raised |-> "",
               path |-> LogDirPath(base_dir, date_string), makedirs |-> 1]
         ELSE [dir |-> dir, raised |-> outcome, path |-> NoPath, makedirs |-> 1]

\* lines 116-138: dir is what is at the path before the call; the result
\* holds what is there afterwards, the exception raised ("" if none), the
\* path returned and the number of os.makedirs calls
CreateLogDownloadDirectory(base_dir, date_string, dir, outcome) ==
    IF ~dir.exists
    THEN IF outcome = ""
         THEN [dir |-> [dir EXCEPT !.exists = TRUE], raised |-> "",
               path |-> LogDirPath(base_dir, date_string), makedirs |-> 1]
         ELSE [dir |-> dir, raised |-> outcome, path |-> NoPath, makedirs |-> 1]
    ELSE [dir |-> dir, raised |-> "", path |-> LogDirPath(base_dir, date_string),
          makedirs |-> 0]

\* LOCAL_LOG_STORAGE_BASE with the working directory /w
LOCAL_LOG_STORAGE_BASE == <<"/", "w", "/", "data", "/", "downloaded_logs">>

PrepareDirectories ==
    /\ pc = "prepare"
    /\ \E outcome \in MakedirsOutcomes :
          LET r == CreateLogDownloadDirectory(LOCAL_LOG_STORAGE_BASE, Today, local_dir, outcome)
          IN  /\ local_dir' = r.dir
              /\ calls' = [calls EXCEPT !.makedirs = @ + r.makedirs]
              /\ IF r.raised # ""
                 THEN ExitWith(r.raised)
                 ELSE /\ pc' = "connect"
                      /\ UNCHANGED <<exit_code, raised>>
    /\ UNCHANGED <<environ, tracker_file, analysis_df, ssh_open, sftp_open, row,
                   problematic_remote_paths, downloaded_log_filenames, download_returned,
                   analysis_results, analyze_env, updated_df, row_log, listings, copies,
                   save_calls>>
    /\ UNCHANGED <<missing_vars, tracker_file0>>
    /\ UNCHANGED <<cvars, mvars, dvars>>

(***************************************************************************)
(* Step 3: download_latest_logs.                                           *)
(***************************************************************************)
ConnectErrors ==
    {"AuthenticationException", "SSHException", "TimeoutError", "EOFError",
     "NoValidConnectionsError"}

WithExitLeavesOpen(is_open) == is_open

\* lines 163 and 179: leaving a with-block, normally or by an exception,
\* closes the client or sub-session it manages
WithExit(is_open) == FALSE

\* lines 163-177: the client is created and connect() is called
Connect ==
    /\ pc = "connect"
    /\ calls' = [calls EXCEPT !.connect = @ + 1]
    /\ \/ /\ ssh_open' = TRUE
          /\ pc' = "open_sftp"
          /\ UNCHANGED <<exit_code, raised>>
       \/ /\ \E exc \in ConnectErrors : ExitWith(exc)
          /\ ssh_open' = WithExit(ssh_open)
    /\ UNCHANGED <<environ, tracker_file, analysis_df, local_dir, sftp_open, row,
                   problematic_remote_paths, downloaded_log_filenames, download_returned,
                   analysis_results, analyze_env, updated_df, row_log, listings, copies,
                   save_calls>>
    /\ UNCHANGED <<missing_vars, tracker_file0>>
    /\ UNCHANGED <<cvars, mvars, dvars>>

OpenSftpErrors == {"SSHException", "EOFError"}

\* line 179
OpenSftp ==
    /\ pc = "open_sftp"
    /\ calls' = [calls EXCEPT !.open_sftp = @ + 1]
    /\ \/ /\ sftp_open' = TRUE
          /\ row' = 1
          /\ pc' = "rows"
          /\ UNCHANGED <<ssh_open, exit_code, raised>>
       \/ /\ \E exc \in OpenSftpErrors : ExitWith(exc)
          /\ ssh_open' = WithExit(ssh_open)
          /\ UNCHANGED <<sftp_open, row>>
    /\ UNCHANGED <<environ, tracker_file, analysis_df, local_dir,
                   problematic_remote_paths, downloaded_log_filenames, download_returned,
                   analysis_results, analyze_env, updated_df, row_log, listings, copies,
                   save_calls>>
    /\ UNCHANGED <<missing_vars, tracker_file0>>
    /\ UNCHANGED <<cvars, mvars, dvars>>

RowErrors == {"FileNotFoundError", "IOError", "Exception"}

CaughtInRowLoopNoCatchAll(exc) ==
    \/ IsInstance(exc, "FileNotFoundError")
    \/ IsInstance(exc, "IOError")

\* lines 213-225: the except clauses of the row loop
CaughtInRowLoop(exc) ==
    \/ IsInstance(exc, "FileNotFoundError")
    \/ IsInstance(exc, "IOError")
    \/ IsInstance(exc, "Exception")

AddProblemAlways(problems, remote_path) == Append(problems, remote_path)

\* lines 194-195, 215-216, 219-220, 224-225
AddProblem(problems, remote_path) ==
    IF ~SeqHas(problems, remote_path) THEN Append(problems, remote_path) ELSE problems

AlreadyDownloadedNever(name, downloaded) == FALSE

\* line 201
AlreadyDownloaded(name, downloaded) == name \in downloaded

DownloadedAfterGetAddFirst(downloaded, name, ok) == downloaded \cup {name}

\* lines 209-210: the name is added only when get() returned
DownloadedAfterGet(downloaded, name, ok) ==
    IF ok THEN downloaded \cup {name} ELSE downloaded

\* What a failed get() may leave at the local path: nothing new, or a
\* truncated copy.
Prefixes(lines) == {SubSeq(lines, 1, n) : n \in 0..(Len(lines) - 1)}

\* An exception raised inside the row loop: handled there, or it leaves
\* both with-blocks (closing the sessions) and reaches main.
RowException(exc, remote_path) ==
    IF CaughtInRowLoop(exc)
    THEN /\ problematic_remote_paths' = AddProblem(problematic_remote_paths, remote_path)
         /\ row' = row + 1
         /\ UNCHANGED <<pc, exit_code, raised, ssh_open, sftp_open>>
    ELSE /\ ExitWith(exc)
         /\ ssh_open' = WithExit(ssh_open)
         /\ sftp_open' = WithExit(sftp_open)
         /\ UNCHANGED <<problematic_remote_paths, row>>

\* lines 182-225: one iteration of the loop over df.iterrows()
ProcessRow ==
    /\ pc = "rows"
    /\ row <= Len(analysis_df.rows)
    /\ LET remote_path == RemotePath(analysis_df.rows[row])
           dir == RStripSlash(remote_path.s)
           remote_files == RemoteFiles(dir)
           latest_log_filename == StrMax(remote_files)
           Log(event, name) == Append(row_log, [path |-> remote_path, event |-> event, name |-> name])
       IN  \/ /\ ~Truthy(remote_path)
              /\ row' = row + 1
              /\ row_log' = Log("blank", <<>>)
              /\ UNCHANGED <<pc, exit_code, raised, ssh_open, sftp_open, local_dir,
                             problematic_remote_paths, downloaded_log_filenames,
                             listings, copies>>
           \/ /\ Truthy(remote_path)
              /\ listings' = Append(listings, remote_path)
              /\ \/ /\ \E exc \in RowErrors : RowException(exc, remote_path)
                    /\ row_log' = Log("list_raised", <<>>)
                    /\ UNCHANGED <<local_dir, downloaded_log_filenames, copies>>
                 \/ /\ remote_files = {}
                    /\ problematic_remote_paths' = AddProblem(problematic_remote_paths, remote_path)
                    /\ row' = row + 1
                    /\ row_log' = Log("empty", <<>>)
                    /\ UNCHANGED <<pc, exit_code, raised, ssh_open, sftp_open, local_dir,
                                   downloaded_log_filenames, copies>>
                 \/ /\ remote_files # {}
                    /\ AlreadyDownloaded(latest_log_filename, downloaded_log_filenames)
                    /\ row' = row + 1
                    /\ row_log' = Log("dup_skip", latest_log_filename)
                    /\ UNCHANGED <<pc, exit_code, raised, ssh_open, sftp_open, local_dir,
                                   problematic_remote_paths, downloaded_log_filenames, copies>>
                 \/ /\ remote_files # {}
                    /\ ~AlreadyDownloaded(latest_log_filename, downloaded_log_filenames)
                    /\ local_dir' = [local_dir EXCEPT !.files =
                           (latest_log_filename :> RemoteContent(dir, latest_log_filename)) @@ @]
                    /\ downloaded_log_filenames' =
                           DownloadedAfterGet(downloaded_log_filenames, latest_log_filename, TRUE)
                    /\ copies' = Append(copies, [row |-> row, name |-> latest_log_filename, ok |-> TRUE])
                    /\ row' = row + 1
                    /\ row_log' = Log("copied", latest_log_filename)
                    /\ UNCHANGED <<pc, exit_code, raised, ssh_open, sftp_open,
                                   problematic_remote_paths>>
                 \/ /\ remote_files # {}
                    /\ ~AlreadyDownloaded(latest_log_filename, downloaded_log_filenames)
                    /\ \/ UNCHANGED local_dir
                       \/ \E part \in Prefixes(RemoteContent(dir, latest_log_filename)) :
                             local_dir' = [local_dir EXCEPT !.files =
                                              (latest_log_filename :> part) @@ @]
                    /\ downloaded_log_filenames' =
                           DownloadedAfterGet(downloaded_log_filenames, latest_log_filename, FALSE)
                    /\ copies' = Append(copies, [row |-> row, name |-> latest_log_filename, ok |-> FALSE])
                    /\ row_log' = Log("copy_raised", latest_log_filename)
                    /\ \E exc \in RowErrors : RowException(exc, remote_path)
    /\ UNCHANGED <<environ, tracker_file, analysis_df, download_returned,
                   analysis_results, analyze_env, updated_df, save_calls>>
    /\ UNCHANGED <<missing_vars, tracker_file0, calls>>
    /\ UNCHANGED <<cvars, mvars, dvars>>

\* lines 227-231: the loop is over, both with-blocks exit, the list is returned
FinishDownload ==
    /\ pc = "rows"
    /\ row > Len(analysis_df.rows)
    /\ sftp_open' = WithExit(sftp_open)
    /\ ssh_open' = WithExit(ssh_open)
    /\ download_returned' = TRUE
    /\ pc' = "analyze"
    /\ UNCHANGED <<exit_code, raised, environ, tracker_file, analysis_df, local_dir, row,
                   problematic_remote_paths, downloaded_log_filenames,
                   analysis_results, analyze_env, updated_df, row_log, listings, copies,
                   save_calls>>
    /\ UNCHANGED <<missing_vars, tracker_file0, calls>>
    /\ UNCHANGED <<cvars, mvars, dvars>>

(***************************************************************************)
(* Step 4: analyze_downloaded_logs; the per-date directory may have been   *)
(* removed by then.                                                        *)
(***************************************************************************)
LocalDirVanishes ==
    /\ pc = "analyze"
    /\ local_dir.exists
    /\ local_dir' = [exists |-> FALSE, files |-> NoFiles]
    /\ UNCHANGED <<pc, exit_code, raised, environ, tracker_file, analysis_df, ssh_open,
                   sftp_open, row, problematic_remote_paths, downloaded_log_filenames,
                   download_returned, analysis_results, analyze_env, updated_df, row_log, listings, copies,
                   save_calls>>
    /\ UNCHANGED <<missing_vars, tracker_file0, calls>>
    /\ UNCHANGED <<cvars, mvars, dvars>>

AnalysisFailedNever(results) == FALSE

\* line 436: 'error' in analysis_results_dict
AnalysisFailed(results) == DictHas(results, STR_error)

\* lines 435-439
AnalyzeLogs ==
    /\ pc = "analyze"
    /\ \E list_raises \in BOOLEAN, order \in Perms(DOMAIN local_dir.files),
          read_exc \in ReadOutcomes(DOMAIN local_dir.files) :
          /\ analysis_results' = AnalyzeDownloadedLogs(local_dir, list_raises, order, read_exc)
          /\ analyze_env' = [list_raises |-> list_raises, read_exc |-> read_exc]
          /\ IF AnalysisFailed(analysis_results')
             THEN ExitWith("RuntimeError")
             ELSE /\ pc' = "update"
                  /\ UNCHANGED <<exit_code, raised>>
    /\ UNCHANGED <<environ, tracker_file, analysis_df, local_dir, ssh_open, sftp_open, row,
                   problematic_remote_paths, downloaded_log_filenames, download_returned,
                   updated_df, row_log, listings, copies, save_calls>>
    /\ UNCHANGED <<missing_vars, tracker_file0, calls>>
    /\ UNCHANGED <<cvars, mvars, dvars>>

(***************************************************************************)
(* Step 5: update_tracker_with_results on a copy of the table.             *)
(***************************************************************************)
UpdateStep ==
    /\ pc = "update"
    /\ updated_df' = UpdateTracker(analysis_df, analysis_results, Today, problematic_remote_paths)
    /\ pc' = "save"
    /\ UNCHANGED <<exit_code, raised, environ, tracker_file, analysis_df, local_dir, ssh_open,
                   sftp_open, row, problematic_remote_paths, downloaded_log_filenames,
                   download_returned, analysis_results, analyze_env, row_log, listings,
                   copies, save_calls>>
    /\ UNCHANGED <<missing_vars, tracker_file0, calls>>
    /\ UNCHANGED <<cvars, mvars, dvars>>

(***************************************************************************)
(* Step 6: save_analysis_results.                                          *)
(***************************************************************************)
SaveErrors == {"PermissionError", "OSError"}

SaveStep ==
    /\ pc = "save"
    /\ save_calls' = save_calls + 1
    /\ \/ /\ tracker_file' = [state |-> "ok", table |-> updated_df]
          /\ pc' = "exited"
          /\ UNCHANGED <<exit_code, raised>>
       \/ /\ \E exc \in SaveErrors : ExitWith(exc)
          /\ UNCHANGED tracker_file
    /\ UNCHANGED <<environ, analysis_df, local_dir, ssh_open, sftp_open, row,
                   problematic_remote_paths, downloaded_log_filenames, download_returned,
                   analysis_results, analyze_env, updated_df, row_log, listings, copies>>
    /\ UNCHANGED <<missing_vars, tracker_file0, calls>>
    /\ UNCHANGED <<cvars, mvars, dvars>>

Next ==
    \/ LoadConfig
    \/ PrepareDirectories
    \/ Connect
    \/ OpenSftp
    \/ ProcessRow
    \/ FinishDownload
    \/ LocalDirVanishes
    \/ AnalyzeLogs
    \/ UpdateStep
    \/ SaveStep

vars == <<cvars, mvars, pvars, dvars>>

(***************************************************************************)
(* SpecDir: create_log_download_directory called repeatedly.               *)
(***************************************************************************)
\* tempfile.TemporaryDirectory() of the tests
TMPDIR == <<"/", "tmp", "/", "t1">>

DirBases == {LOCAL_LOG_STORAGE_BASE, TMPDIR}
DirDates == {D1, D2}
DirPaths == {LogDirPath(b, d) : b \in DirBases, d \in DirDates}
MaxDirCalls == 2

InitDir ==
    /\ dfs \in [DirPaths -> LocalDirs]
    /\ dlog = <<>>
    /\ CIdle
    /\ MIdle
    /\ PIdle

CreateDirCall ==
    /\ Len(dlog) < MaxDirCalls
    /\ \E base \in DirBases, date \in DirDates, outcome \in MakedirsOutcomes :
          LET log_dir == LogDirPath(base, date)
              r == CreateLogDownloadDirectory(base, date, dfs[log_dir], outcome)
          IN  /\ dfs' = [dfs EXCEPT ![log_dir] = r.dir]
              /\ dlog' = Append(dlog, [base |-> base, date |-> date, raised |-> r.raised,
                                       path |-> r.path, before |-> dfs[log_dir],
                                       after |-> r.dir])
    /\ UNCHANGED <<cvars, mvars, pvars>>

NextDir == CreateDirCall

SpecDir == InitDir /\ [][NextDir]_vars

InitClassify ==
    /\ cdir \in ClassifierDirs
    /\ cresult = NotRun
    /\ cenv = NoEnv
    /\ MIdle
    /\ PIdle
    /\ DIdle

NextClassify == AnalyzeDir

SpecClassify == InitClassify /\ [][NextClassify]_vars

InitMerge ==
    /\ morig \in MergeTables
    /\ mdf = morig
    /\ mprev = morig
    /\ mlast = NoMerge
    /\ mdates = <<>>
    /\ CIdle
    /\ PIdle
    /\ DIdle

NextMerge == MergeResults

SpecMerge == InitMerge /\ [][NextMerge]_vars

(***************************************************************************)
(* SpecInterrupt: the pipeline when the running step may also be           *)
(* interrupted from the keyboard (SIGINT), which raises KeyboardInterrupt  *)
(* inside main's try block.                                                *)
(***************************************************************************)
Interrupt ==
    /\ pc # "exited"
    /\ ExitWith("KeyboardInterrupt")
    /\ ssh_open' = WithExit(ssh_open)
    /\ sftp_open' = WithExit(sftp_open)
    /\ UNCHANGED <<environ, tracker_file, analysis_df, local_dir, row,
                   problematic_remote_paths, downloaded_log_filenames, download_returned,
                   analysis_results, analyze_env, updated_df, row_log, listings, copies,
                   save_calls, missing_vars, tracker_file0, calls>>
    /\ UNCHANGED <<cvars, mvars, dvars>>

NextInterrupt ==
    \/ Next
    \/ Interrupt

SpecInterrupt == Init /\ [][NextInterrupt]_vars


Spec == Init /\ [][Next]_vars


(***************************************************************************)
(* Properties of the classifier.                                           *)
(***************************************************************************)
HasMarker(line) ==
    \/ StrContains(line, SUCCESS_KEYWORD)
    \/ StrContains(line, FAILURE_KEYWORD)
    \/ StrContains(line, ERROR_KEYWORD)

MarkerLines(lines) == {i \in 1..Len(lines) : HasMarker(lines[i])}

LastMarkerLine(lines) == CHOOSE i \in MarkerLines(lines) : \A j \in MarkerLines(lines) : j <= i

StatusByLastMarkerLine(lines) ==
    IF MarkerLines(lines) = {} THEN "unknown"
    ELSE IF StrContains(lines[LastMarkerLine(lines)], SUCCESS_KEYWORD) THEN "success"
    ELSE IF StrContains(lines[LastMarkerLine(lines)], FAILURE_KEYWORD) THEN "failure"
    ELSE "error"

\* C1: every file of the directory that could be read gets the status
\* decided by its last line holding a marker (success before failure before
\* error on that line), 'unknown' when no line holds one; markers on
\* earlier lines do not count.
C1_LastMarkerLineDecides ==
    (cresult # NotRun /\ cdir.exists /\ ~cenv.list_raises) =>
        \A n \in DOMAIN cdir.files :
            cenv.read_exc[n] = NoReadError =>
                /\ DictHas(cresult, n)
                /\ DictGet(cresult, n) = StatusByLastMarkerLine(cdir.files[n])

\* A file whose last marker line says failure although an earlier line
\* says success, classified as failure.
C1_Witness ==
    /\ cresult # NotRun
    /\ cdir.exists
    /\ F_a1 \in DOMAIN cdir.files
    /\ cdir.files[F_a1] = <<L_succ, L_fail, L_plain>>
    /\ DictHas(cresult, F_a1)
    /\ DictGet(cresult, F_a1) = "failure"

(***************************************************************************)
(* Properties of update_tracker_with_results.                              *)
(***************************************************************************)
\* Entries of the mapping whose base job identifier is the final segment of
\* the row's remote path.
MatchingEntries(trow, results) ==
    {k \in 1..Len(results) :
        /\ Truthy(RemotePath(trow))
        /\ BaseJobName(results[k].name) = PathIdentifier(RemotePath(trow).s)}

LastMatchingEntry(trow, results) ==
    CHOOSE k \in MatchingEntries(trow, results) : \A j \in MatchingEntries(trow, results) : j <= k

FallbackStatus(trow, problems) ==
    IF SeqHas(problems, RemotePath(trow)) THEN "access_error"
    ELSE IF ~Truthy(RemotePath(trow)) THEN "missing_path"
    ELSE "log_not_found_or_analyzed"

MergedCell(k) == mdf.rows[k][ResultsCol(mlast.date)]

\* C3: after a merge, a row matched by no classified file name holds
\* access_error when its path is a problem path, else missing_path when its
\* path is blank, else log_not_found_or_analyzed.
C3_UnmatchedRowsGetFallback ==
    Len(mdates) >= 1 =>
        \A k \in 1..Len(mdf.rows) :
            MatchingEntries(mdf.rows[k], mlast.results) = {} =>
                MergedCell(k) = FallbackStatus(mdf.rows[k], mlast.problems)

\* One merge that produced all three fallback statuses on unmatched rows.
C3_Witness ==
    /\ Len(mdates) >= 1
    /\ \A st \in {"access_error", "missing_path", "log_not_found_or_analyzed"} :
          \E k \in 1..Len(mdf.rows) :
              /\ MatchingEntries(mdf.rows[k], mlast.results) = {}
              /\ MergedCell(k) = st

\* C4: after a merge, a row matched by at least one classified file name
\* holds the status of the last matching entry of the mapping, whether or
\* not its path is a problem path.
C4_MatchedRowsKeepLastStatus ==
    Len(mdates) >= 1 =>
        \A k \in 1..Len(mdf.rows) :
            MatchingEntries(mdf.rows[k], mlast.results) # {} =>
                MergedCell(k) = mlast.results[LastMatchingEntry(mdf.rows[k], mlast.results)].status

\* A row on a problem path, matched by two file names of different status,
\* one of them with two hyphens, holding the later one's status.
C4_Witness ==
    /\ Len(mdates) >= 1
    /\ \E k \in 1..Len(mdf.rows) :
          /\ SeqHas(mlast.problems, RemotePath(mdf.rows[k]))
          /\ Cardinality(MatchingEntries(mdf.rows[k], mlast.results)) = 2
          /\ \E e \in MatchingEntries(mdf.rows[k], mlast.results) :
                /\ mlast.results[e].name = F_ab1
                /\ mlast.results[e].status # MergedCell(k)
          /\ MergedCell(k) \in MergeStatuses

ColumnCount(df, col) == Cardinality({c \in 1..Len(df.cols) : df.cols[c] = col})

\* C5: after two merges for the same date the table has one column of that
\* date and equals the table obtained by merging only the second mapping
\* and problem list into the original table.
C5_SecondMergeOverwrites ==
    (Len(mdates) = 2 /\ mdates[1] = mdates[2]) =>
        /\ ColumnCount(mdf, ResultsCol(mlast.date)) = 1
        /\ mdf = UpdateTracker(morig, mlast.results, mlast.date, mlast.problems)

\* The first merge created the column and classified a row; the second
\* merge for the same date left that row at a fallback status.
C5_Witness ==
    /\ Len(mdates) = 2
    /\ mdates[1] = mdates[2]
    /\ ~SeqHas(morig.cols, ResultsCol(mlast.date))
    /\ \E k \in 1..Len(mdf.rows) :
          /\ mprev.rows[k][ResultsCol(mlast.date)] = "success"
          /\ MergedCell(k) = "log_not_found_or_analyzed"


(***************************************************************************)
(* Properties of the pipeline.                                             *)
(***************************************************************************)
TodayCell(k) == updated_df.rows[k][ResultsCol(Today)]

\* C2: in a run that exits with code 0, every row whose latest remote file
\* was copied in this run holds that file's classification in today's
\* column, whatever the download directory held before the run.
C2_CopiedRowsHoldTheirClassification ==
    (pc = "exited" /\ exit_code = 0) =>
        \A k \in 1..Len(row_log) :
            row_log[k].event = "copied" =>
                TodayCell(k) = DictGet(analysis_results, row_log[k].name)

\* C6: analysing an existing, listable, empty directory returns the empty
\* mapping and the run goes on; analysing a missing directory returns
\* {'error': 'directory_not_found'} and the run exits with code 4 with no
\* merge and no save.
C6_EmptyVersusMissingDirectory ==
    analysis_results # NotRun =>
        /\ (local_dir.exists /\ ~analyze_env.list_raises /\ DOMAIN local_dir.files = {}) =>
              /\ analysis_results = <<>>
              /\ raised # "RuntimeError"
              /\ pc \in {"update", "save", "exited"}
        /\ ~local_dir.exists =>
              /\ analysis_results = ErrorDict("directory_not_found")
              /\ analysis_results # <<>>
              /\ pc = "exited"
              /\ exit_code = 4
              /\ updated_df = NoTable
              /\ save_calls = 0

\* The directory vanished after a download and the run ended with code 4.
C6_Witness ==
    /\ analysis_results # NotRun
    /\ ~local_dir.exists
    /\ download_returned
    /\ Len(copies) > 0
    /\ pc = "exited"
    /\ exit_code = 4

\* C7: when the directory exists and can be listed, main does not take the
\* returned mapping for a classification failure, whatever the file names.
C7_ListableDirectoryNeverFailsTheRun ==
    (analysis_results # NotRun /\ local_dir.exists /\ ~analyze_env.list_raises) =>
        /\ raised # "RuntimeError"
        /\ exit_code # 4

RECURSIVE NonBlankPaths(_, _)
NonBlankPaths(df, n) ==
    IF n = 0 THEN <<>>
    ELSE IF Truthy(RemotePath(df.rows[n]))
         THEN Append(NonBlankPaths(df, n - 1), RemotePath(df.rows[n]))
         ELSE NonBlankPaths(df, n - 1)

ProblemEvents == {"list_raised", "empty", "copy_raised"}

\* C8: once the SFTP session is open, the row loop is never left by an
\* exception: the rows are visited in table order, every non-blank path is
\* listed, and download_latest_logs returns normally.
C8_RowProblemsNeverAbort ==
    row >= 1 =>
        /\ pc = "rows" \/ download_returned
        /\ Len(row_log) = (IF pc = "rows" THEN row - 1 ELSE Len(analysis_df.rows))
        /\ \A k \in 1..Len(row_log) : row_log[k].path = RemotePath(analysis_df.rows[k])
        /\ listings = NonBlankPaths(analysis_df, Len(row_log))

\* A run in which a copy raised, a listing raised and a listing was empty,
\* and the function still returned after the last row.
C8_Witness ==
    /\ download_returned
    /\ \A ev \in ProblemEvents : \E k \in 1..Len(row_log) : row_log[k].event = ev
    /\ row_log[1].event = "copy_raised"
    /\ Len(row_log) = Len(analysis_df.rows)

\* C9: the returned list holds exactly the paths for which some row's
\* listing raised, listing was empty or copy raised, each once, and no
\* blank path; blank rows are skipped without a listing.
C9_ProblemListIsExact ==
    download_returned =>
        /\ \A k \in 1..Len(row_log) :
              SeqHas(problematic_remote_paths, row_log[k].path) <=>
                  \E j \in 1..Len(row_log) :
                      /\ row_log[j].path = row_log[k].path
                      /\ row_log[j].event \in ProblemEvents
        /\ \A a \in 1..Len(problematic_remote_paths) :
              /\ Truthy(problematic_remote_paths[a])
              /\ \E j \in 1..Len(row_log) : row_log[j].path = problematic_remote_paths[a]
              /\ \A b \in 1..Len(problematic_remote_paths) :
                    problematic_remote_paths[a] = problematic_remote_paths[b] => a = b
        /\ \A k \in 1..Len(row_log) : ~Truthy(row_log[k].path) <=> row_log[k].event = "blank"
        /\ Len(listings) = Cardinality({k \in 1..Len(row_log) : row_log[k].event # "blank"})

\* Two rows with the same path both failed, a blank row lay between them,
\* and the list holds the path once.
C9_Witness ==
    /\ download_returned
    /\ Len(row_log) >= 3
    /\ row_log[1].event \in ProblemEvents
    /\ row_log[2].event = "blank"
    /\ row_log[3].event \in ProblemEvents
    /\ row_log[1].path = row_log[3].path
    /\ problematic_remote_paths[1] = row_log[1].path
    /\ \A a \in 2..Len(problematic_remote_paths) :
          problematic_remote_paths[a] # row_log[1].path

OkCopies == {c \in 1..Len(copies) : copies[c].ok}

\* C10: a row whose chosen file name was already copied successfully in
\* this run is skipped without a copy and without becoming a problem path;
\* no file name is copied successfully twice; a failed copy does not make
\* the name count as copied.
C10_NoSecondCopyOfAName ==
    /\ \A a, b \in OkCopies : copies[a].name = copies[b].name => a = b
    /\ \A a, b \in 1..Len(copies) :
          (a < b /\ copies[a].ok) => copies[a].name # copies[b].name
    /\ downloaded_log_filenames = {copies[c].name : c \in OkCopies}
    /\ \A k \in 1..Len(row_log) :
          row_log[k].event = "dup_skip" =>
              /\ \E c \in OkCopies : copies[c].row < k /\ copies[c].name = row_log[k].name
              /\ \A c \in 1..Len(copies) : copies[c].row # k
    /\ \A k \in 1..Len(row_log) :
          (\A j \in 1..Len(row_log) :
              row_log[j].path = row_log[k].path => row_log[j].event \in {"dup_skip", "copied"})
          => ~SeqHas(problematic_remote_paths, row_log[k].path)

\* A copy of a name failed, a later row copied the same name successfully,
\* and a third row choosing that name was skipped and is not a problem path.
C10_Witness ==
    /\ download_returned
    /\ \E a, b \in 1..Len(copies) :
          a < b /\ ~copies[a].ok /\ copies[b].ok /\ copies[a].name = copies[b].name
    /\ \E k \in 1..Len(row_log) :
          /\ row_log[k].event = "dup_skip"
          /\ ~SeqHas(problematic_remote_paths, row_log[k].path)

(***************************************************************************)
(* Properties of the download step: what is copied, and the session.       *)
(***************************************************************************)
\* The entries the remote directory of tracker row k lists.
ListedFor(k) == RemoteFiles(RStripSlash(RemotePath(analysis_df.rows[k]).s))

IsGreatest(name, files) ==
    /\ name \in files
    /\ \A g \in files : g = name \/ StrLess(g, name)

\* C11: for every row whose remote directory lists at least one entry, the
\* only entry a copy is attempted for is the greatest entry of that listing
\* in string order, and no row has a second copy.
C11_OnlyGreatestEntryIsCopied ==
    /\ \A c \in DOMAIN copies : IsGreatest(copies[c].name, ListedFor(copies[c].row))
    /\ \A c, d \in DOMAIN copies : copies[c].row = copies[d].row => c = d

\* A copy was made from a directory that lists two entries.
C11_Witness ==
    \E c \in DOMAIN copies :
        /\ Cardinality(ListedFor(copies[c].row)) >= 2
        /\ copies[c].ok

ClassificationStarted == analysis_results # NotRun \/ pc \in {"analyze", "update", "save"}

\* C12: a run makes at most one connect() and one open_sftp() however many
\* rows the table has, the sub-session is only ever open inside the client,
\* and once download_latest_logs is left (by return or by an exception
\* reaching main) both are closed: classification never runs, and the run
\* never exits, with the session open.
C12_OneSessionClosedBeforeClassification ==
    /\ calls.connect <= 1
    /\ calls.open_sftp <= calls.connect
    /\ sftp_open => ssh_open
    /\ (ClassificationStarted \/ pc = "exited") => (~ssh_open /\ ~sftp_open)

\* Classification has run after a session that served several rows.
C12_Witness ==
    /\ analysis_results # NotRun
    /\ calls.connect = 1
    /\ calls.open_sftp = 1
    /\ Len(listings) >= 3

\* connect() or open_sftp() was called and raised: the session was never
\* established (row stays 0 until the sub-session is open).
SessionFailed == pc = "exited" /\ calls.connect = 1 /\ row = 0

\* C13: every failure to establish the remote session ends the run with
\* exit code 2, whatever class the exception has, and no classification,
\* merge or save takes place.
C13_SessionFailureExitsTwo ==
    SessionFailed =>
        /\ exit_code = 2
        /\ analysis_results = NotRun
        /\ updated_df = NoTable
        /\ save_calls = 0

(***************************************************************************)
(* Properties of main: when the tracker is written, and the exit codes.    *)
(***************************************************************************)
\* Steps 1 to 5 have all completed: the table was loaded, the download
\* returned, the classification holds no 'error' entry and the merged
\* table is the merge of exactly these.
StepsBeforeSaveCompleted ==
    /\ tracker_file0.state = "ok"
    /\ missing_vars = <<>>
    /\ analysis_df = tracker_file0.table
    /\ download_returned
    /\ analysis_results # NotRun
    /\ ~DictHas(analysis_results, STR_error)
    /\ updated_df = UpdateTracker(analysis_df, analysis_results, Today,
                                  problematic_remote_paths)

\* The run ended in one of the steps before the save step.
FailedBeforeSave == pc = "exited" /\ raised # "" /\ updated_df = NoTable

\* C14: save_analysis_results is called only after load, download,
\* classification and merge have all completed; a run that fails in
\* credential loading, tracker loading, directory preparation, session
\* establishment or classification never calls it; and as long as it has not
\* been called the tracker file is what it was when the run started.
C14_SaveOnlyAfterCompletePipeline ==
    /\ save_calls > 0 => StepsBeforeSaveCompleted
    /\ FailedBeforeSave => save_calls = 0
    /\ save_calls = 0 => tracker_file = tracker_file0
    /\ tracker_file # tracker_file0 =>
          /\ pc = "exited"
          /\ exit_code = 0
          /\ tracker_file = [state |-> "ok", table |-> updated_df]

\* A successful run has written the merged table over the tracker file.
C14_Witness ==
    /\ pc = "exited"
    /\ exit_code = 0
    /\ save_calls = 1
    /\ tracker_file # tracker_file0
    /\ tracker_file.table = updated_df

NoNetworkActivity ==
    /\ calls.connect = 0
    /\ calls.open_sftp = 0
    /\ ~ssh_open /\ ~sftp_open
    /\ listings = <<>>
    /\ copies = <<>>

\* C15: when any of SSH_HOSTNAME, SSH_USERNAME, SSH_PASSWORD is absent,
\* step 1 raises ValueError over exactly the absent names and the run exits
\* with code 1 without any network activity.
C15_MissingCredentialsExitOne ==
    (pc # "load_config" /\ REQUIRED_VARS \ environ # {}) =>
        /\ pc = "exited"
        /\ raised = "ValueError"
        /\ exit_code = 1
        /\ {missing_vars[i] : i \in DOMAIN missing_vars} = REQUIRED_VARS \ environ
        /\ NoNetworkActivity

\* The run has ended over two absent variables although the tracker file
\* is loadable.
C15_Witness ==
    /\ pc = "exited"
    /\ environ = {"SSH_USERNAME"}
    /\ missing_vars = <<"SSH_HOSTNAME", "SSH_PASSWORD">>
    /\ tracker_file.state = "ok"
    /\ exit_code = 1

\* C16: exit code 3 means a permission failure on saving: the run exits
\* with 3 only if the save step was reached and failed with a permission
\* error, and a permission error raised by the save step always gives 3.
C16_ExitThreeIffSavePermissionError ==
    /\ (pc = "exited" /\ exit_code = 3) =>
          (save_calls = 1 /\ raised = "PermissionError")
    /\ (pc = "exited" /\ save_calls = 1 /\ raised = "PermissionError") =>
          exit_code = 3

\* C17: when the tracker file is missing, unreadable or lacks the
\* remote-path column, get_analysis_tracker hands main no table; main ends
\* the run with exit code 1 (its own ValueError), with no directory created,
\* no network activity and no save.
C17_UnloadableTrackerExitsOne ==
    (pc # "load_config" /\ tracker_file0.state \in {"missing", "unreadable", "no_column"}) =>
        /\ pc = "exited"
        /\ raised = "ValueError"
        /\ exit_code = 1
        /\ analysis_df = NoTable
        /\ calls.makedirs = 0
        /\ NoNetworkActivity
        /\ save_calls = 0
        /\ tracker_file = tracker_file0

\* The run has ended over a tracker file without the remote-path column,
\* with all three credentials present.
C17_Witness ==
    /\ pc = "exited"
    /\ tracker_file0.state = "no_column"
    /\ missing_vars = <<>>
    /\ environ = REQUIRED_VARS
    /\ ~local_dir.exists
    /\ exit_code = 1

(***************************************************************************)
(* Attempts per run.                                                       *)
(***************************************************************************)
AllNonBlankPaths == NonBlankPaths(analysis_df, Len(analysis_df.rows))

\* The remote file a recorded get() named: the row's directory and the name.
RemoteFileOf(c) == <<RStripSlash(RemotePath(analysis_df.rows[copies[c].row]).s), copies[c].name>>

\* C18 as stated: within one run each remote path is listed at most once,
\* each remote file is copied at most once and the save is attempted at
\* most once, also for tables in which several rows carry the same path.
C18_EachPathAndFileAtMostOnce ==
    /\ \A i, j \in DOMAIN listings : listings[i] = listings[j] => i = j
    /\ \A c, d \in DOMAIN copies : RemoteFileOf(c) = RemoteFileOf(d) => c = d
    /\ save_calls <= 1

\* C18 amended: attempts are per row, not per path. Each non-blank row's
\* path is listed at most once for that row, in table order; each row has at
\* most one copy attempt; no file name is copied successfully twice; the
\* save is attempted at most once.
C18_OneAttemptPerRowAndSave ==
    /\ Len(listings) <= Len(AllNonBlankPaths)
    /\ \A j \in DOMAIN listings : listings[j] = AllNonBlankPaths[j]
    /\ \A c, d \in DOMAIN copies : c < d => copies[c].row < copies[d].row
    /\ \A c, d \in DOMAIN copies :
          (copies[c].ok /\ copies[d].ok /\ copies[c].name = copies[d].name) => c = d
    /\ save_calls <= 1

\* Two rows carry the same path: it was listed for each, the first row's
\* copy failed, the second row copied the same remote file, and the run
\* went on to its one save.
C18_Witness ==
    /\ save_calls = 1
    /\ \E i, j \in DOMAIN listings : i < j /\ listings[i] = listings[j]
    /\ \E c, d \in DOMAIN copies :
          /\ c < d
          /\ RemoteFileOf(c) = RemoteFileOf(d)
          /\ ~copies[c].ok
          /\ copies[d].ok

(***************************************************************************)
(* Properties of update_tracker_with_results: rows sharing a path, and     *)
(* what the merge leaves alone.                                            *)
(***************************************************************************)
LastResultsCol == ResultsCol(mlast.date)

\* C19: after a merge, any two rows whose remote-path values are equal
\* hold equal values in the result column of the merge's date.
C19_EqualPathsEqualResults ==
    mdates # <<>> =>
        \A j, k \in 1..Len(mdf.rows) :
            RemotePath(mdf.rows[j]) = RemotePath(mdf.rows[k]) =>
                mdf.rows[j][LastResultsCol] = mdf.rows[k][LastResultsCol]

\* Two rows carry the same path and a classified file matched them, while
\* another row of the table holds a different value.
C19_Witness ==
    /\ mdates # <<>>
    /\ \E j, k \in 1..Len(mdf.rows) :
          /\ j < k
          /\ Truthy(RemotePath(mdf.rows[j]))
          /\ RemotePath(mdf.rows[j]) = RemotePath(mdf.rows[k])
          /\ mdf.rows[j][LastResultsCol] = "failure"
          /\ mdf.rows[k][LastResultsCol] = "failure"
    /\ \E i \in 1..Len(mdf.rows) : mdf.rows[i][LastResultsCol] # "failure"

Without(cols, col) == SelectSeq(cols, LAMBDA c : c # col)

ColSet(df) == {df.cols[i] : i \in DOMAIN df.cols}

\* C20: a merge changes only the result column of its date. Rows keep
\* their number and order and their values in every other column; the
\* columns that existed keep their relative order; a new date column is the
\* only column added and sits immediately after the remote-path column; an
\* existing date column stays where it is.
C20_OnlyTheDateColumnChanges ==
    mdates # <<>> =>
        /\ Len(mdf.rows) = Len(mprev.rows)
        /\ \A k \in 1..Len(mdf.rows) :
              /\ DOMAIN mdf.rows[k] = ColSet(mdf)
              /\ \A c \in ColSet(mprev) \ {LastResultsCol} :
                    mdf.rows[k][c] = mprev.rows[k][c]
        /\ Without(mdf.cols, LastResultsCol) = Without(mprev.cols, LastResultsCol)
        /\ IF LastResultsCol \in ColSet(mprev)
           THEN mdf.cols = mprev.cols
           ELSE /\ Len(mdf.cols) = Len(mprev.cols) + 1
                /\ \E i \in 1..(Len(mdf.cols) - 1) :
                      /\ mdf.cols[i] = LOG_PATH_COLUMN
                      /\ mdf.cols[i + 1] = LastResultsCol

\* A second merge, for another date, put its new column between the
\* remote-path column and the first merge's column, ahead of a descriptive
\* column, and left the first merge's results as they were.
C20_Witness ==
    /\ Len(mdates) = 2
    /\ mdates[1] # mdates[2]
    /\ mdf.cols = <<LOG_PATH_COLUMN, ResultsCol(mdates[2]), ResultsCol(mdates[1]),
                    JOB_NAME_COLUMN>>
    /\ \E k \in 1..Len(mdf.rows) :
          /\ mdf.rows[k][ResultsCol(mdates[1])] = "success"
          /\ mdf.rows[k][ResultsCol(mdates[2])] # "success"

(***************************************************************************)
(* Properties of create_log_download_directory.                            *)
(***************************************************************************)
SameDirArgs(i, j) == dlog[i].base = dlog[j].base /\ dlog[i].date = dlog[j].date

\* C21: create_log_download_directory is idempotent. After a call that
\* returned, every later call with the same base directory and date returns
\* the same path '<base>/<date>_logs', raises nothing, and leaves the
\* directory and the files already in it in place.
C21_CreateDirectoryIdempotent ==
    \A i, j \in DOMAIN dlog :
        (i < j /\ SameDirArgs(i, j) /\ dlog[i].raised = "") =>
            /\ dlog[j].raised = ""
            /\ dlog[j].path = dlog[i].path
            /\ dlog[i].path = dlog[i].base \o <<"/", dlog[i].date, "_logs">>
            /\ dlog[j].after.exists
            /\ dlog[j].after = dlog[i].after
            /\ dlog[j].after.files = dlog[i].before.files

\* The first call created the directory, the second call with the same
\* arguments found it there.
C21_Witness ==
    /\ Len(dlog) = 2
    /\ SameDirArgs(1, 2)
    /\ ~dlog[1].before.exists
    /\ dlog[1].raised = ""
    /\ dlog[2].before.exists
    /\ dlog[2].raised = ""

(***************************************************************************)
(* Exit codes.                                                             *)
(***************************************************************************)
AllSixStepsCompleted ==
    /\ raised = ""
    /\ StepsBeforeSaveCompleted
    /\ save_calls = 1
    /\ tracker_file = [state |-> "ok", table |-> updated_df]

\* C22: a run ends with one exit code from 0..5 whichever step raises and
\* whatever it raises, and the code is 0 if and only if all six steps
\* completed without raising.
C22_ExitCodeZeroIffAllStepsCompleted ==
    pc = "exited" =>
        /\ exit_code \in 0..5
        /\ exit_code = 0 <=> AllSixStepsCompleted

(***************************************************************************)
(* Fixture file names and the match on the path's final segment.           *)
(***************************************************************************)
\* The name the fixture generator gives a job's log: '<job>-<date>_<time>.log'.
\* The stamp stands for '<date>_<time>', digits and an underscore.
FixtureLogName(job, stamp) == job \o <<"-">> \o stamp \o DOT_LOG

FixtureStamps == {<<"1">>, <<"2">>}
PlainJobs == {<<"a">>, <<"b">>}
HyphenJobs == {<<"a", "-", "b">>}

\* The final segment of the path, trailing separators aside, is the job.
FinalSegmentIs(path, job) ==
    LET p == RStripSlash(path)
    IN  /\ Len(p) > Len(job)
        /\ SubSeq(p, Len(p) - Len(job) + 1, Len(p)) = job
        /\ p[Len(p) - Len(job)] = "/"

\* After the latest merge, every row whose path ends in a job of the set
\* holds a classification whenever a fixture-named file of that job was
\* classified.
FixtureFilesMatch(jobs) ==
    mdates # <<>> =>
        \A e \in DOMAIN mlast.results, job \in jobs, stamp \in FixtureStamps :
            mlast.results[e].name = FixtureLogName(job, stamp) =>
                \A k \in 1..Len(mdf.rows) :
                    (Truthy(RemotePath(mdf.rows[k]))
                        /\ FinalSegmentIs(RemotePath(mdf.rows[k]).s, job)) =>
                        /\ MergedCell(k) \in MergeStatuses
                        /\ MergedCell(k) # "log_not_found_or_analyzed"

\* C23 as stated: for every job name, a classified file named
\* '<job>-<date>_<time>.log' is matched to every row whose path ends in
\* '<job>', so such a row never ends at log_not_found_or_analyzed.
C23_FixtureNameMatchesForEveryJob == FixtureFilesMatch(PlainJobs \cup HyphenJobs)

\* C23 amended: the same for every job name that contains no hyphen.
C23_FixtureNameMatchesHyphenFreeJobs == FixtureFilesMatch(PlainJobs)

\* The fixture-named log of job b was classified and the row of /l/b holds
\* its status, although /l/b is also a problem path.
C23_Witness ==
    /\ mdates # <<>>
    /\ \E e \in DOMAIN mlast.results :
          /\ mlast.results[e].name = FixtureLogName(<<"b">>, <<"1">>)
          /\ mlast.results[e].status = "failure"
    /\ SeqHas(mlast.problems, PyStr(P_lb))
    /\ \E k \in 1..Len(mdf.rows) :
          /\ RemotePath(mdf.rows[k]) = PyStr(P_lb)
          /\ MergedCell(k) = "failure"

(***************************************************************************)
(* The statuses of analyze_downloaded_logs.                                *)
(***************************************************************************)
ClosedStatusSet == {"success", "failure", "error", "unknown", "not_found", "parse_error"}

EntriesNamed(d, n) == {k \in 1..Len(d) : d[k].name = n}

\* C24: when the directory exists and was listed, the mapping holds exactly
\* one entry per directory entry and every status is in the closed set; an
\* entry that vanished before reading holds not_found, an entry whose
\* reading raised anything else holds parse_error, and the entries that
\* could be read hold a content status all the same.
C24_OneEntryPerFileClosedStatuses ==
    (cresult # NotRun /\ cdir.exists /\ ~cenv.list_raises) =>
        /\ Len(cresult) = Cardinality(DOMAIN cdir.files)
        /\ \A k \in 1..Len(cresult) :
              /\ cresult[k].name \in DOMAIN cdir.files
              /\ cresult[k].status \in ClosedStatusSet
        /\ \A n \in DOMAIN cdir.files :
              /\ Cardinality(EntriesNamed(cresult, n)) = 1
              /\ cenv.read_exc[n] = "FileNotFoundError" => DictGet(cresult, n) = "not_found"
              /\ cenv.read_exc[n] \notin {NoReadError, "FileNotFoundError"} =>
                    DictGet(cresult, n) = "parse_error"
              /\ cenv.read_exc[n] = NoReadError =>
                    DictGet(cresult, n) \in {"success", "failure", "error", "unknown"}

\* One file of the directory vanished before it was read and the other
\* file was classified from its content.
C24_Witness ==
    /\ cresult # NotRun
    /\ Len(cresult) = 2
    /\ \E j, k \in 1..2 :
          /\ cenv.read_exc[cresult[j].name] = "FileNotFoundError"
          /\ cresult[j].status = "not_found"
          /\ cenv.read_exc[cresult[k].name] = NoReadError
          /\ cresult[k].status = "failure"
====
